---- MODULE Spec2Model ----
(***************************************************************************)
(* Model of swayfire's interactive grab machine (src/src/grab.cpp) and of  *)
(* the node model declared in src/src/swayfire.hpp.                        *)
(*                                                                         *)
(* Spec       the grab machine: activators, pointer/touch/button callbacks *)
(*            and fini_grab_interface, over a small population of nodes.   *)
(* SpecEdges  resize_calc_resizing_edges as a pure function of (geo, p).   *)
(***************************************************************************)
EXTENDS Integers, Sequences, FiniteSets, TLC

\* ------------------------------------------------------------------ bounds
\* Pointer / touch coordinates of the grab machine are Step * (0..MaxCoord).
MaxCoord == 1
Step == 10
\* Number of successful activate_plugin calls explored in one run.
MaxActivations == 1
\* Coordinates of SpecEdges: 0..SmallCoord and PointStep * (0..MaxPointSteps).
SmallCoord == 8
PointStep == 5
MaxPointSteps == 21
\* SpecTree: the side of the (square) workarea the root node fills, the
\* requested sizes MIN_VIEW_SIZE * (1..MaxResizeSteps), and the number of
\* try_resize calls explored in one run.
WorkareaSize == 105
MaxResizeSteps == 3
MaxTreeResizes == 1
\* SpecIds: the number of nodes constructed in one run.
MaxConstructed == 3

\* ------------------------------------------------------- program constants
MIN_VIEW_SIZE == 20
\* id_counter is a uint, 32 bits wide: the pair <<h, l>> stands for
\* h * 2^16 + l, both halves in 0..UintHalf - 1.
UintHalf == 65536
RESIZE_MARGIN_PERCENT == 35

WLR_EDGE_LEFT == "LEFT"
WLR_EDGE_RIGHT == "RIGHT"
WLR_EDGE_TOP == "TOP"
WLR_EDGE_BOTTOM == "BOTTOM"
WLR_EDGE_NONE == {}

WLR_BUTTON_RELEASED == "released"
WLR_BUTTON_PRESSED == "pressed"

\* ------------------------------------------------------------ node universe
\* f1: floating view node.  s1: floating split node whose only child c1 is a
\* tiled view node.  t1: tiled view node under the (non floating) tiled root.
GrabNodes == {"f1", "s1", "c1", "t1", "root"}
NoNode == "null"

NodeFloating(n) == n \in {"f1", "s1"}

NodeParentSplit(n) ==
    CASE n = "c1" -> "s1"
      [] n = "t1" -> "root"
      [] OTHER -> NoNode

\* Views the cursor can be over; "noview" is get_cursor_focus_view() == null,
\* "vbare" is a view without ViewData.
Views == {"vf1", "vc1", "vt1", "vbare", "noview"}

ViewDataNode(v) ==
    CASE v = "vf1" -> "f1"
      [] v = "vc1" -> "c1"
      [] v = "vt1" -> "t1"
      [] OTHER -> NoNode

RECURSIVE find_floating_parent(_)
find_floating_parent(n) ==
    IF n = NoNode THEN NoNode
    ELSE IF NodeFloating(n) THEN n
    ELSE find_floating_parent(NodeParentSplit(n))

\* ------------------------------------------------------------------ geometry
Geo(x, y, w, h) == [x |-> x, y |-> y, width |-> w, height |-> h]
Point(x, y) == [x |-> x, y |-> y]

Coords == {Step * i : i \in 0..MaxCoord}
Points == {Point(x, y) : x \in Coords, y \in Coords}

\* The buttons of the options swayfire/button_move_activate and
\* swayfire/button_resize_activate, as configured.
button_move_activate == "BTN_LEFT"
button_resize_activate == "BTN_RIGHT"
EventButtons == {button_move_activate, button_resize_activate, "BTN_MIDDLE"}
ButtonStates == {WLR_BUTTON_PRESSED, WLR_BUTTON_RELEASED}
TouchIds == {0, 1}
\* Places a touch point is reported at.
TouchPoints == {Point(0, Step), Point(Step, 0)}

\* wf::geometry_t & wf::point_t: wlr_box_contains_point, half open.
GeoContains(geo, p) ==
    /\ geo.width > 0 /\ geo.height > 0
    /\ geo.x <= p.x /\ p.x < geo.x + geo.width
    /\ geo.y <= p.y /\ p.y < geo.y + geo.height

\* (int)((float)d * 0.35f).  For 0 <= d < 2^24 the float product truncates to
\* floor(35 d / 100): 35 d / 100 is either an integer, to which the product
\* rounds, or at least 0.05 away from one.
ResizeMargin(d) == (d * RESIZE_MARGIN_PERCENT) \div 100

\* Mutant: the margins are compared with <= instead of <.
margin_edges_le(geo, p) ==
    LET vert_margin == ResizeMargin(geo.height)
        hori_margin == ResizeMargin(geo.width)
    IN  (IF (p.x - geo.x) <= hori_margin THEN {WLR_EDGE_LEFT}
         ELSE IF (geo.x + geo.width - p.x) <= hori_margin
              THEN {WLR_EDGE_RIGHT}
         ELSE {})
        \cup
        (IF (p.y - geo.y) <= vert_margin THEN {WLR_EDGE_TOP}
         ELSE IF (geo.y + geo.height - p.y) <= vert_margin
              THEN {WLR_EDGE_BOTTOM}
         ELSE {})

\* resize_calc_resizing_edges, the margin rule: the value of edges before
\* the test edges == WLR_EDGE_NONE.
margin_edges(geo, p) ==
    LET vert_margin == ResizeMargin(geo.height)
        hori_margin == ResizeMargin(geo.width)
        hori == IF (p.x - geo.x) < hori_margin THEN {WLR_EDGE_LEFT}
                ELSE IF (geo.x + geo.width - p.x) < hori_margin
                     THEN {WLR_EDGE_RIGHT}
                ELSE {}
        vert == IF (p.y - geo.y) < vert_margin THEN {WLR_EDGE_TOP}
                ELSE IF (geo.y + geo.height - p.y) < vert_margin
                     THEN {WLR_EDGE_BOTTOM}
                ELSE {}
    IN  hori \cup vert

\* Mutant: the fallback to the pointer's half is missing.
resize_calc_resizing_edges_nodefault(geo, p) ==
    IF ~GeoContains(geo, p) THEN WLR_EDGE_NONE
    ELSE
      LET vert_margin == ResizeMargin(geo.height)
          hori_margin == ResizeMargin(geo.width)
      IN  (IF (p.x - geo.x) < hori_margin THEN {WLR_EDGE_LEFT}
           ELSE IF (geo.x + geo.width - p.x) < hori_margin
                THEN {WLR_EDGE_RIGHT}
           ELSE {})
          \cup
          (IF (p.y - geo.y) < vert_margin THEN {WLR_EDGE_TOP}
           ELSE IF (geo.y + geo.height - p.y) < vert_margin
                THEN {WLR_EDGE_BOTTOM}
           ELSE {})

\* Mutant: the fallback compares with <= instead of <.
resize_calc_resizing_edges_le(geo, p) ==
    IF ~GeoContains(geo, p) THEN WLR_EDGE_NONE
    ELSE
      LET edges == resize_calc_resizing_edges_nodefault(geo, p)
      IN  IF edges = WLR_EDGE_NONE
          THEN (IF (p.x - geo.x) <= (geo.width \div 2)
                THEN {WLR_EDGE_LEFT} ELSE {WLR_EDGE_RIGHT})
               \cup
               (IF (p.y - geo.y) <= (geo.height \div 2)
                THEN {WLR_EDGE_TOP} ELSE {WLR_EDGE_BOTTOM})
          ELSE edges

\* resize_calc_resizing_edges (RESIZE_MARGIN is 0.35f)
resize_calc_resizing_edges(geo, p) ==
    IF ~GeoContains(geo, p) THEN WLR_EDGE_NONE
    ELSE
      LET edges == margin_edges(geo, p)
      IN  IF edges = WLR_EDGE_NONE
          THEN (IF (p.x - geo.x) < (geo.width \div 2)
                THEN {WLR_EDGE_LEFT} ELSE {WLR_EDGE_RIGHT})
               \cup
               (IF (p.y - geo.y) < (geo.height \div 2)
                THEN {WLR_EDGE_TOP} ELSE {WLR_EDGE_BOTTOM})
          ELSE edges

\* --------------------------------------------------------------- variables
VARIABLES
    geometry,               \* INode::geometry of every node
    cursor,                 \* wf::get_core().get_cursor_position()
    active_grab,            \* Swayfire::active_grab (NullGrab when nullptr)
    bindings,               \* on_move_activate / on_resize_activate are bound
    activations,            \* successful output->activate_plugin calls
    deactivations,          \* output->deactivate_plugin calls
    last_motion,            \* coordinates last given to the grab's
                            \* pointer_motion, <<>> before the first
    ret,                    \* value returned by the activator that ran last
    arbiter_calls,          \* calls the last handler made on the output and
                            \* the grab interface, with their answers
    request,                \* try_resize call issued by the last handler
    edge_geo, edge_p, edge_out,  \* SpecEdges: input and result
    edge_margin,            \* SpecEdges: edges after the margin rule
    children,               \* SplitNode::children, per split node
    split_type,             \* SplitNode::split_type, per split node
    parent,                 \* INode::parent, per node
    prefered_split_type,    \* ViewNode::prefered_split_type, per view node
    resizes,                \* number of try_resize calls on tiled nodes so far
    tree_ret,               \* what the last operation on the tree returned
    destroyed,              \* the nodes the last operation on the tree destroyed
    ws,                     \* INode::ws, per node
    floating,               \* INode::floating, per view node
    floating_nodes,         \* Workspace::floating_nodes
    id_counter,             \* id_counter, a uint as <<high half, low half>>
    node_id,                \* INode::node_id of every node alive, <<>> for
                            \* a node not constructed or destroyed
    id_log                  \* the ids given so far, in the order given

grabVars == <<geometry, cursor, active_grab, bindings, activations,
              deactivations, last_motion, ret, arbiter_calls, request>>
edgeVars == <<edge_geo, edge_p, edge_out, edge_margin>>
treeVars == <<children, split_type, parent, prefered_split_type, resizes,
              tree_ret, destroyed, ws, floating, floating_nodes>>
idVars == <<id_counter, node_id, id_log>>
vars == <<grabVars, edgeVars, treeVars, idVars>>
\* What the grab machine leaves alone.
notGrabVars == <<edgeVars, treeVars, idVars>>

ZeroGeo == Geo(0, 0, 0, 0)
NullGrab == [kind |-> "null", dragged |-> NoNode, original_geo |-> ZeroGeo,
             pointer_start |-> Point(0, 0), resizing_edges |-> {},
             deactivate_button |-> "none"]

\* The exclusive-capture token: the output holds this plugin as active.
TokenHeld == activations > deactivations

\* ------------------------------------------------------- node operations
\* INode::set_geometry: a view node stores the rectangle; the split node s1
\* stores it and hands its only child the whole rectangle.
SetGeometry(g, n, geo) ==
    [m \in GrabNodes |->
        IF m = n \/ NodeParentSplit(m) = n THEN geo ELSE g[m]]

Max(a, b) == IF a > b THEN a ELSE b

\* INode::try_resize on a floating node: the moving edges move to reach ndims,
\* the other edges stay; an axis without a moving edge keeps its dimension.
TryResizeGeo(geo, ndims, edges) ==
    LET hori == edges \cap {WLR_EDGE_LEFT, WLR_EDGE_RIGHT} # {}
        vert == edges \cap {WLR_EDGE_TOP, WLR_EDGE_BOTTOM} # {}
        nw == IF hori THEN Max(ndims.width, MIN_VIEW_SIZE) ELSE geo.width
        nh == IF vert THEN Max(ndims.height, MIN_VIEW_SIZE) ELSE geo.height
        nx == IF WLR_EDGE_LEFT \in edges THEN geo.x + geo.width - nw
              ELSE geo.x
        ny == IF WLR_EDGE_TOP \in edges THEN geo.y + geo.height - nh
              ELSE geo.y
    IN  Geo(nx, ny, nw, nh)

\* ------------------------------------------------------------ the arbiter
\* Answers output->activate_plugin can give: it refuses a plugin that is
\* already active, and may refuse for reasons of its own otherwise.
ActivatePluginAnswers == IF TokenHeld THEN {FALSE} ELSE BOOLEAN
\* Answers grab_interface->grab() can give once the plugin is active.
GrabAnswers == BOOLEAN

\* --------------------------------------------------------- IActiveGrab
\* Mutant: the answer of activate_plugin is not looked at.
try_activate_unchecked(granted, grab_ok) ==
    IF grab_ok
    THEN [cons |-> TRUE,
          calls |-> <<IF granted THEN "activate_plugin:true"
                      ELSE "activate_plugin:false", "grab:true">>]
    ELSE [cons |-> FALSE,
          calls |-> <<IF granted THEN "activate_plugin:true"
                      ELSE "activate_plugin:false", "grab:false",
                      "deactivate_plugin">>]

\* Mutant: a failed grab() leaves the plugin activated.
try_activate_leak(granted, grab_ok) ==
    IF granted
    THEN IF grab_ok
         THEN [cons |-> TRUE,
               calls |-> <<"activate_plugin:true", "grab:true">>]
         ELSE [cons |-> FALSE,
               calls |-> <<"activate_plugin:true", "grab:false">>]
    ELSE [cons |-> FALSE, calls |-> <<"activate_plugin:false">>]

\* Mutant: a failed grab() deactivates the plugin twice.
try_activate_twice(granted, grab_ok) ==
    IF granted
    THEN IF grab_ok
         THEN [cons |-> TRUE,
               calls |-> <<"activate_plugin:true", "grab:true">>]
         ELSE [cons |-> FALSE,
               calls |-> <<"activate_plugin:true", "grab:false",
                           "deactivate_plugin", "deactivate_plugin">>]
    ELSE [cons |-> FALSE, calls |-> <<"activate_plugin:false">>]

\* IActiveGrab::try_activate, given the answers of activate_plugin and of
\* grab(): whether the constructor runs, and the calls made on the way.
try_activate(granted, grab_ok) ==
    IF granted
    THEN IF grab_ok
         THEN [cons |-> TRUE,
               calls |-> <<"activate_plugin:true", "grab:true">>]
         ELSE [cons |-> FALSE,
               calls |-> <<"activate_plugin:true", "grab:false",
                           "deactivate_plugin">>]
    ELSE [cons |-> FALSE, calls |-> <<"activate_plugin:false">>]

CountOf(seq, c) == Cardinality({i \in DOMAIN seq : seq[i] = c})

\* ActiveMove::construct, the constructor lambda.
ActiveMove_construct(dragged) ==
    [kind |-> "move", dragged |-> dragged,
     original_geo |-> geometry[dragged],
     pointer_start |-> cursor,
     resizing_edges |-> {},
     deactivate_button |-> button_move_activate]

\* ActiveResize::construct, the constructor lambda.
ActiveResize_construct(dragged) ==
    [kind |-> "resize", dragged |-> dragged,
     original_geo |-> geometry[dragged],
     pointer_start |-> cursor,
     resizing_edges |-> resize_calc_resizing_edges(geometry[dragged], cursor),
     deactivate_button |-> button_resize_activate]

\* Mutant: the translation is applied to the current geometry.
ActiveMove_pointer_motion_incremental(grab, x, y) ==
    [geometry[grab.dragged] EXCEPT
        !.x = @ + (x - grab.pointer_start.x),
        !.y = @ + (y - grab.pointer_start.y)]

\* ActiveMove::pointer_motion: the rectangle handed to set_geometry.
ActiveMove_pointer_motion(grab, x, y) ==
    [grab.original_geo EXCEPT
        !.x = @ + (x - grab.pointer_start.x),
        !.y = @ + (y - grab.pointer_start.y)]

\* Mutant: the dimensions are taken from the current geometry.
ActiveResize_pointer_motion_current(grab, x, y) ==
    LET dw == x - grab.pointer_start.x
        dh == y - grab.pointer_start.y
        cur == geometry[grab.dragged]
        nw == IF WLR_EDGE_LEFT \in grab.resizing_edges
              THEN cur.width - dw ELSE cur.width + dw
        nh == IF WLR_EDGE_TOP \in grab.resizing_edges
              THEN cur.height - dh ELSE cur.height + dh
    IN  IF dw = 0 /\ dh = 0 THEN <<>>
        ELSE <<[node |-> grab.dragged,
                ndims |-> [width |-> nw, height |-> nh],
                edges |-> grab.resizing_edges]>>

\* Mutant: the early return on a zero displacement is missing.
ActiveResize_pointer_motion_always(grab, x, y) ==
    LET dw == x - grab.pointer_start.x
        dh == y - grab.pointer_start.y
        nw == IF WLR_EDGE_LEFT \in grab.resizing_edges
              THEN grab.original_geo.width - dw
              ELSE grab.original_geo.width + dw
        nh == IF WLR_EDGE_TOP \in grab.resizing_edges
              THEN grab.original_geo.height - dh
              ELSE grab.original_geo.height + dh
    IN  <<[node |-> grab.dragged,
           ndims |-> [width |-> nw, height |-> nh],
           edges |-> grab.resizing_edges]>>

\* ActiveResize::pointer_motion: the try_resize call it makes, <<>> when it
\* returns early.
ActiveResize_pointer_motion(grab, x, y) ==
    LET dw == x - grab.pointer_start.x
        dh == y - grab.pointer_start.y
        nw == IF WLR_EDGE_LEFT \in grab.resizing_edges
              THEN grab.original_geo.width - dw
              ELSE grab.original_geo.width + dw
        nh == IF WLR_EDGE_TOP \in grab.resizing_edges
              THEN grab.original_geo.height - dh
              ELSE grab.original_geo.height + dh
    IN  IF dw = 0 /\ dh = 0 THEN <<>>
        ELSE <<[node |-> grab.dragged,
                ndims |-> [width |-> nw, height |-> nh],
                edges |-> grab.resizing_edges]>>

\* Mutant: the grab ends on the press of its button.
IActiveButtonDrag_button_pressed(grab, b, state) ==
    b = grab.deactivate_button /\ state = WLR_BUTTON_PRESSED

\* Mutant: the grab ends on the release of any button.
IActiveButtonDrag_button_any(grab, b, state) ==
    state = WLR_BUTTON_RELEASED

\* IActiveButtonDrag::button: TRUE when it resets plugin->active_grab.
IActiveButtonDrag_button(grab, b, state) ==
    b = grab.deactivate_button /\ state = WLR_BUTTON_RELEASED

\* active_grab->pointer_motion(x, y), dispatched on the kind of the grab.
GrabPointerMotion(x, y) ==
    /\ last_motion' = <<Point(x, y)>>
    /\ IF active_grab.kind = "move"
       THEN /\ geometry' = SetGeometry(geometry, active_grab.dragged,
                              ActiveMove_pointer_motion(active_grab, x, y))
            /\ request' = <<>>
       ELSE LET req == ActiveResize_pointer_motion(active_grab, x, y)
            IN  /\ request' = req
                /\ geometry' =
                     IF req = <<>> THEN geometry
                     ELSE SetGeometry(geometry, req[1].node,
                            TryResizeGeo(geometry[req[1].node],
                                         req[1].ndims, req[1].edges))

\* ------------------------------------------------------------- callbacks
\* grab_interface->callbacks.pointer.motion
PointerMotion(x, y) ==
    /\ cursor' = Point(x, y)
    /\ ret' = "none"
    /\ arbiter_calls' = <<>>
    /\ IF active_grab # NullGrab
       THEN GrabPointerMotion(x, y)
       ELSE /\ request' = <<>>
            /\ UNCHANGED <<geometry, last_motion>>
    /\ UNCHANGED <<active_grab, bindings, activations, deactivations>>
    /\ UNCHANGED notGrabVars

\* Mutant: every touch point drives the grab.
TouchMotion_anyid(id, x, y) ==
    /\ ret' = "none"
    /\ arbiter_calls' = <<>>
    /\ IF active_grab # NullGrab
       THEN GrabPointerMotion(x, y)
       ELSE /\ request' = <<>>
            /\ UNCHANGED <<geometry, last_motion>>
    /\ UNCHANGED <<cursor, active_grab, bindings, activations,
                   deactivations>>
    /\ UNCHANGED notGrabVars

\* grab_interface->callbacks.touch.motion
TouchMotion(id, x, y) ==
    /\ ret' = "none"
    /\ arbiter_calls' = <<>>
    /\ IF active_grab # NullGrab /\ id = 1
       THEN GrabPointerMotion(x, y)
       ELSE /\ request' = <<>>
            /\ UNCHANGED <<geometry, last_motion>>
    /\ UNCHANGED <<cursor, active_grab, bindings, activations,
                   deactivations>>
    /\ UNCHANGED notGrabVars

\* grab_interface->callbacks.pointer.button; resetting active_grab runs
\* ~IActiveGrab, which deactivates the plugin.
PointerButton(b, state) ==
    /\ ret' = "none"
    /\ request' = <<>>
    /\ IF active_grab # NullGrab
          /\ IActiveButtonDrag_button(active_grab, b, state)
       THEN /\ active_grab' = NullGrab
            /\ deactivations' = deactivations + 1
            /\ arbiter_calls' = <<"deactivate_plugin">>
            /\ last_motion' = <<>>
       ELSE /\ arbiter_calls' = <<>>
            /\ UNCHANGED <<active_grab, deactivations, last_motion>>
    /\ UNCHANGED <<geometry, cursor, bindings, activations>>
    /\ UNCHANGED notGrabVars

\* Body shared by on_move_activate and on_resize_activate: cons builds the
\* grab for the node found.  Assigning active_grab destroys a grab that was
\* there, which deactivates the plugin once more.
ActivateNode(node, granted, grab_ok, cons(_)) ==
    LET out == try_activate(granted, grab_ok)
        calls == IF out.cons /\ active_grab # NullGrab
                 THEN Append(out.calls, "deactivate_plugin")
                 ELSE out.calls
    IN  /\ bindings
        /\ request' = <<>>
        /\ IF node = NoNode
           THEN /\ ret' = "false"
                /\ arbiter_calls' = <<>>
                /\ UNCHANGED <<active_grab, activations, deactivations,
                               last_motion>>
           ELSE /\ out.calls # <<"activate_plugin:false">>
                     => activations < MaxActivations
                /\ arbiter_calls' = calls
                /\ activations' =
                     activations + CountOf(calls, "activate_plugin:true")
                /\ deactivations' =
                     deactivations + CountOf(calls, "deactivate_plugin")
                /\ IF out.cons
                   THEN /\ active_grab' = cons(node)
                        /\ last_motion' = <<>>
                        /\ ret' = "true"
                   ELSE /\ ret' = "false"
                        /\ UNCHANGED <<active_grab, last_motion>>
        /\ UNCHANGED <<geometry, cursor, bindings>>
        /\ UNCHANGED notGrabVars

\* The node an activator grabs for the view under the cursor: the floating
\* parent of the view's node, NoNode when there is no view, no ViewData or no
\* floating parent.
Activate(view, granted, grab_ok, cons(_)) ==
    ActivateNode(find_floating_parent(ViewDataNode(view)), granted, grab_ok,
                 cons)

\* Mutant: the view's node is grabbed, floating or not.
on_move_activate_direct(view, granted, grab_ok) ==
    ActivateNode(ViewDataNode(view), granted, grab_ok, ActiveMove_construct)

\* Swayfire::on_move_activate
on_move_activate(view, granted, grab_ok) ==
    Activate(view, granted, grab_ok, ActiveMove_construct)

\* Swayfire::on_resize_activate
on_resize_activate(view, granted, grab_ok) ==
    Activate(view, granted, grab_ok, ActiveResize_construct)

\* Mutant: the bindings are removed but active_grab is left alone.
fini_grab_interface_keep ==
    /\ bindings
    /\ bindings' = FALSE
    /\ arbiter_calls' = <<>>
    /\ ret' = "none"
    /\ request' = <<>>
    /\ UNCHANGED <<geometry, cursor, active_grab, activations,
                   deactivations, last_motion>>
    /\ UNCHANGED notGrabVars

\* Swayfire::fini_grab_interface
fini_grab_interface ==
    /\ bindings
    /\ bindings' = FALSE
    /\ active_grab' = NullGrab
    /\ deactivations' = deactivations
                        + (IF active_grab # NullGrab THEN 1 ELSE 0)
    /\ arbiter_calls' = IF active_grab # NullGrab
                        THEN <<"deactivate_plugin">> ELSE <<>>
    /\ last_motion' = <<>>
    /\ ret' = "none"
    /\ request' = <<>>
    /\ UNCHANGED <<geometry, cursor, activations>>
    /\ UNCHANGED notGrabVars

\* --------------------------------------------------------- the tiled tree
\* View nodes and split nodes of one workspace; root is its tiled_root.
Leaves == {"a", "b", "c"}
Splits == {"root", "s1"}
TreeNodes == Leaves \cup Splits
\* INode::parent of the tiled root: the workspace.
WorkspaceParent == "ws"

\* The tree of a workspace right after its construction: an empty tiled root
\* (split_type is VSPLIT by default), no other node attached or constructed.
TreeIdle ==
    /\ children = [n \in Splits |-> <<>>]
    /\ split_type = [n \in Splits |-> "VSPLIT"]
    /\ parent = [n \in TreeNodes |->
                    IF n = "root" THEN WorkspaceParent ELSE NoNode]
    /\ prefered_split_type = [n \in Leaves |-> "nullopt"]
    /\ resizes = 0
    /\ tree_ret = "none"
    /\ destroyed = {}
    /\ ws = [n \in TreeNodes |->
                IF n = "root" THEN WorkspaceParent ELSE NoNode]
    /\ floating = [n \in Leaves |-> FALSE]
    /\ floating_nodes = <<>>

\* No node has been given an id yet.
IdIdle ==
    /\ id_counter = <<0, 0>>
    /\ node_id = [n \in TreeNodes |-> <<>>]
    /\ id_log = <<>>

\* ------------------------------------------------------ the grab machine
InitGeometry ==
    [n \in GrabNodes |->
        CASE n = "f1" -> Geo(0, 0, 20, 20)
          [] n \in {"s1", "c1"} -> Geo(10, 10, 20, 20)
          [] OTHER -> Geo(0, 0, 40, 40)]

EdgeIdle ==
    /\ edge_geo = ZeroGeo
    /\ edge_p = Point(0, 0)
    /\ edge_out = <<>>
    /\ edge_margin = <<>>

Init ==
    /\ geometry = InitGeometry
    /\ cursor \in Points
    /\ active_grab = NullGrab
    /\ bindings = TRUE
    /\ activations = 0
    /\ deactivations = 0
    /\ last_motion = <<>>
    /\ ret = "none"
    /\ arbiter_calls = <<>>
    /\ request = <<>>
    /\ EdgeIdle
    /\ TreeIdle
    /\ IdIdle

Next ==
    \/ \E p \in Points : PointerMotion(p.x, p.y)
    \/ \E id \in TouchIds, p \in TouchPoints : TouchMotion(id, p.x, p.y)
    \/ \E b \in EventButtons, s \in ButtonStates : PointerButton(b, s)
    \/ \E v \in Views, g \in ActivatePluginAnswers, k \in GrabAnswers :
          on_move_activate(v, g, k)
    \/ \E v \in Views, g \in ActivatePluginAnswers, k \in GrabAnswers :
          on_resize_activate(v, g, k)
    \/ fini_grab_interface

Spec == Init /\ [][Next]_vars

\* State space of Spec.
TypeOK ==
    /\ cursor \in Points
    /\ bindings \in BOOLEAN
    /\ active_grab.kind \in {"null", "move", "resize"}
    /\ activations \in 0..MaxActivations
    /\ deactivations \in 0..activations
    /\ Len(last_motion) <= 1
    /\ Len(request) <= 1
    /\ ret \in {"none", "true", "false"}
    /\ Len(arbiter_calls) <= 4
    /\ resizes \in 0..MaxTreeResizes
    /\ tree_ret \in {"none", "true", "false"} \cup TreeNodes
    /\ destroyed \subseteq Splits
    /\ ws \in [TreeNodes -> {WorkspaceParent, NoNode}]
    /\ floating \in [Leaves -> BOOLEAN]
    /\ \A i \in DOMAIN floating_nodes : floating_nodes[i] \in Leaves
    /\ id_counter \in (0..(UintHalf - 1)) \X (0..(UintHalf - 1))
    /\ \A n \in TreeNodes : Len(node_id[n]) <= 1
    /\ Len(id_log) <= MaxConstructed
    /\ \A n \in TreeNodes : parent[n] \in Splits \cup {NoNode, WorkspaceParent}
    /\ \A p \in Splits : \A i \in DOMAIN children[p] :
          parent[children[p][i].node] = p

\* ------------------------------------------- claims on the grab machine
ActivateStep(v, g, k) ==
    on_move_activate(v, g, k) \/ on_resize_activate(v, g, k)

\* The button bound to the activator of the grab's kind.
DesignatedButton(grab) ==
    IF grab.kind = "move" THEN button_move_activate
    ELSE button_resize_activate

Translate(geo, dx, dy) == Geo(geo.x + dx, geo.y + dy, geo.width, geo.height)

\* C1: the token is never held more than once, and a move-activate or
\* resize-activate attempt made while a grab is active returns false and
\* leaves the grab (kind, dragged node, start geometry, start pointer), the
\* geometries and the token as they were.
C1_SecondGrabRejected ==
    [][/\ activations' - deactivations' <= 1
       /\ (active_grab # NullGrab
            /\ \E v \in Views, g \in BOOLEAN, k \in BOOLEAN :
                  ActivateStep(v, g, k))
          => /\ ret' = "false"
             /\ active_grab' = active_grab
             /\ geometry' = geometry
             /\ TokenHeld']_vars

\* An attempt was just refused while a grab that has moved its node is on.
C1_Witness ==
    /\ active_grab.kind = "move"
    /\ ret = "false"
    /\ arbiter_calls = <<"activate_plugin:false">>
    /\ geometry[active_grab.dragged] # active_grab.original_geo

\* C2: with a grab active, the release of the button bound to the grab's
\* activator ends the grab and deactivates the plugin exactly once.
C2_ReleaseEndsGrab ==
    [][(active_grab # NullGrab
         /\ PointerButton(DesignatedButton(active_grab), WLR_BUTTON_RELEASED))
       => /\ active_grab' = NullGrab
          /\ deactivations' = deactivations + 1
          /\ arbiter_calls' = <<"deactivate_plugin">>
          /\ ~TokenHeld']_vars

\* A button release has just ended a grab.
C2_Witness ==
    /\ bindings
    /\ active_grab = NullGrab
    /\ arbiter_calls = <<"deactivate_plugin">>
    /\ activations = 1 /\ deactivations = 1

\* C3: fini_grab_interface leaves no grab and no token held, whatever the
\* state it ran in; a grab that was active is deactivated exactly once.
C3_FiniReleases ==
    [][fini_grab_interface
       => /\ active_grab' = NullGrab
          /\ ~TokenHeld'
          /\ deactivations' =
               deactivations + (IF active_grab # NullGrab THEN 1 ELSE 0)]_vars

\* fini_grab_interface has just destroyed an active grab.
C3_Witness ==
    /\ ~bindings
    /\ active_grab = NullGrab
    /\ arbiter_calls = <<"deactivate_plugin">>
    /\ ~TokenHeld

\* C4: in Idle, an attempt on which activate_plugin refuses or grab() fails
\* returns false, creates no grab, leaves the geometries alone and leaves no
\* token held.
C4_DeniedStaysIdle ==
    [][\A v \in Views, g \in BOOLEAN, k \in BOOLEAN :
         (active_grab = NullGrab /\ ~(g /\ k) /\ ActivateStep(v, g, k))
         => /\ ret' = "false"
            /\ active_grab' = NullGrab
            /\ geometry' = geometry
            /\ ~TokenHeld']_vars

\* The plugin was activated, grab() failed, and the activation was undone.
C4_Witness ==
    /\ active_grab = NullGrab
    /\ ret = "false"
    /\ arbiter_calls = <<"activate_plugin:true", "grab:false",
                         "deactivate_plugin">>
    /\ ~TokenHeld

\* C5: during a move the dragged node has its start geometry translated by
\* (last position given to pointer_motion - start position), the start
\* geometry itself before the first motion; width and height are the
\* recorded ones.
C5_MoveFollowsPointer ==
    active_grab.kind = "move" =>
        geometry[active_grab.dragged] =
            IF last_motion = <<>> THEN active_grab.original_geo
            ELSE Translate(active_grab.original_geo,
                           last_motion[1].x - active_grab.pointer_start.x,
                           last_motion[1].y - active_grab.pointer_start.y)

\* A move has displaced its node on both axes.
C5_Witness ==
    /\ active_grab.kind = "move"
    /\ last_motion # <<>>
    /\ geometry[active_grab.dragged].x # active_grab.original_geo.x
    /\ geometry[active_grab.dragged].y # active_grab.original_geo.y

\* C8 as stated: a resize started with the pointer outside the node's
\* geometry returns false and starts no grab, and the geometries stay as
\* they were, also under the motion events that follow.
C8_OutsideResizeRejected ==
    [][/\ \A v \in Views, g \in BOOLEAN, k \in BOOLEAN :
            LET node == find_floating_parent(ViewDataNode(v))
            IN  (/\ node # NoNode
                 /\ ~GeoContains(geometry[node], cursor)
                 /\ on_resize_activate(v, g, k))
                => /\ ret' = "false"
                   /\ active_grab' = active_grab
                   /\ geometry' = geometry
       /\ (/\ active_grab.kind = "resize"
           /\ ~GeoContains(active_grab.original_geo,
                           active_grab.pointer_start)
           /\ active_grab' = active_grab)
          => geometry' = geometry]_vars

\* The try_resize call C9 describes for a resize grab and a position.
ExpectedResize(grab, p) ==
    LET dx == p.x - grab.pointer_start.x
        dy == p.y - grab.pointer_start.y
        edges == resize_calc_resizing_edges(grab.original_geo,
                                            grab.pointer_start)
    IN  [node |-> grab.dragged,
         ndims |-> [width |-> IF WLR_EDGE_LEFT \in edges
                              THEN grab.original_geo.width - dx
                              ELSE grab.original_geo.width + dx,
                    height |-> IF WLR_EDGE_TOP \in edges
                               THEN grab.original_geo.height - dy
                               ELSE grab.original_geo.height + dy],
         edges |-> edges]

\* C9 as stated: during a resize every pointer-motion event calls try_resize
\* with the dimensions taken from the start geometry and start position.
C9_EveryMotionRequests ==
    [][\A p \in Points :
         (active_grab.kind = "resize" /\ PointerMotion(p.x, p.y))
         => request' = <<ExpectedResize(active_grab, p)>>]_vars

\* C9 amended: during a resize every pointer-motion event at a position other
\* than the start position calls try_resize with the dimensions taken from
\* the start geometry and start position and with the edges fixed at the
\* start; an event at exactly the start position calls nothing.
C9_MotionRequests ==
    [][\A p \in Points :
         (active_grab.kind = "resize" /\ PointerMotion(p.x, p.y))
         => request' = IF p = active_grab.pointer_start THEN <<>>
                       ELSE <<ExpectedResize(active_grab, p)>>]_vars

\* A resize has issued a request while the node's geometry is no longer the
\* one recorded at the start.
C9_Witness ==
    /\ active_grab.kind = "resize"
    /\ request # <<>>
    /\ WLR_EDGE_LEFT \in active_grab.resizing_edges
    /\ geometry[active_grab.dragged].width # active_grab.original_geo.width

\* C22: with a grab active, a press of any button and a release of a button
\* other than the one bound to the activator of the grab's kind leave the
\* grab (its kind, dragged node, start geometry and start pointer), the
\* geometries and the token as they were.
C22_OtherButtonsIgnored ==
    [][\A b \in EventButtons, s \in ButtonStates :
         (/\ active_grab # NullGrab
          /\ ~(b = DesignatedButton(active_grab) /\ s = WLR_BUTTON_RELEASED)
          /\ PointerButton(b, s))
         => /\ active_grab' = active_grab
            /\ geometry' = geometry
            /\ activations' = activations
            /\ deactivations' = deactivations
            /\ TokenHeld']_vars

\* A resize that has resized its node is still on after an event that was
\* not given to its pointer_motion: the request of the motion is gone, the
\* position it was made for is not.
C22_Witness ==
    /\ active_grab.kind = "resize"
    /\ TokenHeld
    /\ last_motion # <<>>
    /\ last_motion[1] # active_grab.pointer_start
    /\ geometry[active_grab.dragged] # active_grab.original_geo
    /\ request = <<>>
    /\ ret = "none"

\* The nodes from n up to the root of its tree, n first.
RECURSIVE PathToRoot(_)
PathToRoot(n) ==
    IF n = NoNode THEN <<>> ELSE <<n>> \o PathToRoot(NodeParentSplit(n))

\* The node a grab started over view v targets: the first floating node on
\* the path from the view's node to the root, NoNode when there is none.
GrabTarget(v) ==
    LET path == PathToRoot(ViewDataNode(v))
        fl == {i \in DOMAIN path : NodeFloating(path[i])}
    IN  IF fl = {} THEN NoNode
        ELSE path[CHOOSE i \in fl : \A j \in fl : i <= j]

\* C23: the node of a grab is always floating; a move-activate or
\* resize-activate that starts a grab starts it on the node under the cursor
\* if that node is floating and on its nearest floating ancestor otherwise;
\* with no view under the cursor, a view without node or no floating node up
\* to the root, the attempt returns false, makes no call on the arbiter and
\* leaves the grab, the geometries and the token as they were.
\* (ret is "true" or "false" after an activator and "none" after every other
\* handler.)
C23_GrabTargetsFloating ==
    [][/\ active_grab' # NullGrab => NodeFloating(active_grab'.dragged)
       /\ ret' \in {"true", "false"} =>
            \A v \in Views :
              \/ IF GrabTarget(v) = NoNode
                 THEN /\ ret' = "false"
                      /\ arbiter_calls' = <<>>
                      /\ active_grab' = active_grab
                      /\ geometry' = geometry
                      /\ activations' = activations
                      /\ deactivations' = deactivations
                 ELSE ret' = "true" =>
                        /\ active_grab' # NullGrab
                        /\ active_grab'.dragged = GrabTarget(v)
              \/ ~ \E g \in BOOLEAN, k \in BOOLEAN : ActivateStep(v, g, k)]_vars

\* A grab started over the tiled view c1 has its floating parent s1 as its
\* node.
C23_Witness ==
    /\ active_grab # NullGrab
    /\ active_grab.dragged = "s1"
    /\ ret = "true"
    /\ arbiter_calls = <<"activate_plugin:true", "grab:true">>

\* C24: during a grab a touch-motion event with id 1 does what the grab's
\* pointer_motion does with the same coordinates, which is all a
\* pointer-motion event there does (with the cursor already at that place
\* the two events lead to the same state); a touch-motion event with another
\* id leaves the geometries and the last position given to the grab alone
\* and requests nothing; neither changes the grab or the token.
C24_TouchDrivesGrab ==
    [][\A id \in TouchIds, p \in TouchPoints :
         (active_grab # NullGrab /\ TouchMotion(id, p.x, p.y))
         => /\ active_grab' = active_grab
            /\ activations' = activations
            /\ deactivations' = deactivations
            /\ IF id = 1
               THEN /\ GrabPointerMotion(p.x, p.y)
                    /\ cursor = p => PointerMotion(p.x, p.y)
               ELSE /\ geometry' = geometry
                    /\ last_motion' = last_motion
                    /\ request' = <<>>]_vars

\* A move has displaced its node to a place the cursor was not reported at:
\* the motion came from the touch point.
C24_Witness ==
    /\ active_grab.kind = "move"
    /\ last_motion # <<>>
    /\ last_motion[1] # cursor
    /\ last_motion[1] \in TouchPoints
    /\ geometry[active_grab.dragged] =
         Translate(active_grab.original_geo,
                   last_motion[1].x - active_grab.pointer_start.x,
                   last_motion[1].y - active_grab.pointer_start.y)
    /\ geometry[active_grab.dragged] # active_grab.original_geo

\* A pointer-motion, touch-motion or button event.
InputEvent ==
    \/ \E p \in Points : PointerMotion(p.x, p.y)
    \/ \E id \in TouchIds, p \in TouchPoints : TouchMotion(id, p.x, p.y)
    \/ \E b \in EventButtons, s \in ButtonStates : PointerButton(b, s)

\* C25: with no grab active, a pointer-motion, touch-motion or button event
\* changes no geometry, starts no grab, calls nothing on the arbiter and
\* leaves the token alone; during a resize a motion event (of the pointer,
\* or of the touch point with id 1) at exactly the start position calls no
\* try_resize and changes no geometry.
C25_IdleAndZeroMotionNoOps ==
    [][/\ (active_grab = NullGrab /\ InputEvent)
          => /\ geometry' = geometry
             /\ active_grab' = NullGrab
             /\ request' = <<>>
             /\ arbiter_calls' = <<>>
             /\ activations' = activations
             /\ deactivations' = deactivations
       /\ (/\ active_grab.kind = "resize"
           /\ \/ PointerMotion(active_grab.pointer_start.x,
                               active_grab.pointer_start.y)
              \/ TouchMotion(1, active_grab.pointer_start.x,
                             active_grab.pointer_start.y))
          => /\ request' = <<>>
             /\ geometry' = geometry
             /\ active_grab' = active_grab]_vars

\* An input event has arrived in Idle after a grab that changed a geometry
\* has ended: what the grab did is still there, no call was made.
C25_Witness ==
    /\ active_grab = NullGrab
    /\ bindings
    /\ activations = 1 /\ deactivations = 1
    /\ geometry # InitGeometry
    /\ arbiter_calls = <<>>
    /\ request = <<>>
    /\ ret = "none"

\* ---------------------------------------------------------- SpecEdges
\* resize_calc_resizing_edges applied to one rectangle and one point.
EdgeSizes == {1, 6, 7, 20, 100}
EdgeOrigins == {Point(0, 0), Point(3, 5)}
EdgeGeos == {Geo(o.x, o.y, w, h) : o \in EdgeOrigins, w \in EdgeSizes,
                                    h \in EdgeSizes}
EdgeCoords == (0..SmallCoord) \cup {PointStep * k : k \in 0..MaxPointSteps}
EdgePoints == {Point(x, y) : x \in EdgeCoords, y \in EdgeCoords}

GrabIdle ==
    /\ geometry = InitGeometry
    /\ cursor = Point(0, 0)
    /\ active_grab = NullGrab
    /\ bindings = TRUE
    /\ activations = 0
    /\ deactivations = 0
    /\ last_motion = <<>>
    /\ ret = "none"
    /\ arbiter_calls = <<>>
    /\ request = <<>>

InitEdges ==
    /\ GrabIdle
    /\ TreeIdle
    /\ IdIdle
    /\ edge_geo \in EdgeGeos
    /\ edge_p \in EdgePoints
    /\ edge_out = <<>>
    /\ edge_margin = <<>>

CalcEdges ==
    /\ edge_out = <<>>
    /\ edge_out' = <<resize_calc_resizing_edges(edge_geo, edge_p)>>
    /\ edge_margin' = IF GeoContains(edge_geo, edge_p)
                      THEN <<margin_edges(edge_geo, edge_p)>> ELSE <<>>
    /\ UNCHANGED <<edge_geo, edge_p>>
    /\ UNCHANGED <<grabVars, treeVars, idVars>>

NextEdges == CalcEdges

SpecEdges == InitEdges /\ [][NextEdges]_vars

HoriEdges(e) == e \cap {WLR_EDGE_LEFT, WLR_EDGE_RIGHT}
VertEdges(e) == e \cap {WLR_EDGE_TOP, WLR_EDGE_BOTTOM}

\* The pointer is nearer than 35% of the extent (whole pixels) to one end of
\* the axis: dist < floor(35 d / 100), that is 100 (dist + 1) <= 35 d.
InHoriMargin(geo, p) ==
    \/ 100 * (p.x - geo.x + 1) <= 35 * geo.width
    \/ 100 * (geo.x + geo.width - p.x + 1) <= 35 * geo.width
InVertMargin(geo, p) ==
    \/ 100 * (p.y - geo.y + 1) <= 35 * geo.height
    \/ 100 * (geo.y + geo.height - p.y + 1) <= 35 * geo.height

EdgesDone == edge_out # <<>> /\ GeoContains(edge_geo, edge_p)

\* C6 as stated: for a pointer inside the geometry the result has exactly one
\* horizontal edge and exactly one vertical edge.
C6_OneEdgePerAxis ==
    EdgesDone =>
        /\ Cardinality(HoriEdges(edge_out[1])) = 1
        /\ Cardinality(VertEdges(edge_out[1])) = 1

\* C6 amended: for a pointer inside the geometry the result is never empty and
\* never holds both edges of an axis; it holds one edge of each axis exactly
\* when the pointer is within a margin on both axes or on neither, and holds
\* the edge of one axis alone when the pointer is within a margin on that axis
\* only.
C6_EdgesPerAxis ==
    EdgesDone =>
        LET e == edge_out[1]
            h == Cardinality(HoriEdges(e))
            v == Cardinality(VertEdges(e))
            inH == InHoriMargin(edge_geo, edge_p)
            inV == InVertMargin(edge_geo, edge_p)
        IN  /\ e # {}
            /\ h <= 1 /\ v <= 1
            /\ (h = 1 /\ v = 1) <=> (inH <=> inV)
            /\ (inH /\ ~inV) => (h = 1 /\ v = 0)
            /\ (inV /\ ~inH) => (v = 1 /\ h = 0)

\* A pointer inside within the horizontal margin only: one axis results.
C6_Witness ==
    /\ EdgesDone
    /\ InHoriMargin(edge_geo, edge_p) /\ ~InVertMargin(edge_geo, edge_p)
    /\ edge_out[1] = {WLR_EDGE_RIGHT}

\* C7 as stated: geometry {0,0,100,100} and pointer (50,50) give {LEFT, TOP}.
C7_MidlineLeftTop ==
    (edge_out # <<>> /\ edge_geo = Geo(0, 0, 100, 100)
       /\ edge_p = Point(50, 50))
    => edge_out[1] = {WLR_EDGE_LEFT, WLR_EDGE_TOP}

\* C7 amended: a pointer inside within no margin gets LEFT when its offset is
\* below half the width (integer half) and RIGHT otherwise, TOP when its
\* offset is below half the height and BOTTOM otherwise, so a pointer on the
\* midline resolves to RIGHT/BOTTOM: {0,0,100,100} and (50,50) give
\* {RIGHT, BOTTOM}.
C7_MidlineRightBottom ==
    /\ (EdgesDone /\ ~InHoriMargin(edge_geo, edge_p)
          /\ ~InVertMargin(edge_geo, edge_p))
       => edge_out[1] =
            {IF 2 * (edge_p.x - edge_geo.x) + 1 < edge_geo.width
             THEN WLR_EDGE_LEFT ELSE WLR_EDGE_RIGHT,
             IF 2 * (edge_p.y - edge_geo.y) + 1 < edge_geo.height
             THEN WLR_EDGE_TOP ELSE WLR_EDGE_BOTTOM}
    /\ (edge_out # <<>> /\ edge_geo = Geo(0, 0, 100, 100)
          /\ edge_p = Point(50, 50))
       => edge_out[1] = {WLR_EDGE_RIGHT, WLR_EDGE_BOTTOM}

\* The scenario of C7 has been computed.
C7_Witness ==
    /\ edge_out # <<>>
    /\ edge_geo = Geo(0, 0, 100, 100)
    /\ edge_p = Point(50, 50)
    /\ ~InHoriMargin(edge_geo, edge_p) /\ ~InVertMargin(edge_geo, edge_p)

\* The edge of one axis the margin rule selects when "nearer than 35%" is
\* near(dist, extent): lo when the pointer is near the low end, otherwise hi
\* when it is near the high end, otherwise none.
AxisEdge(near(_, _), lo, hi, offset, extent) ==
    IF near(offset, extent) THEN {lo}
    ELSE IF near(extent - offset, extent) THEN {hi}
    ELSE {}

\* dist is strictly less than 35% of extent.
Below35Percent(dist, extent) == 100 * dist < 35 * extent
\* dist is strictly less than 35% of extent truncated to whole pixels.
BelowTruncated35Percent(dist, extent) == 100 * (dist + 1) <= 35 * extent

MarginRuleDone == edge_margin # <<>>

\* The result of the margin rule when "nearer than 35%" is near(dist, extent).
MarginRule(near(_, _)) ==
    AxisEdge(near, WLR_EDGE_LEFT, WLR_EDGE_RIGHT,
             edge_p.x - edge_geo.x, edge_geo.width)
    \cup
    AxisEdge(near, WLR_EDGE_TOP, WLR_EDGE_BOTTOM,
             edge_p.y - edge_geo.y, edge_geo.height)

\* C21 as stated: for a pointer inside the geometry the margin rule selects
\* LEFT if the pointer is less than 35% of the width from the left edge,
\* otherwise RIGHT if it is less than 35% of the width from the right edge,
\* otherwise neither, and decides TOP/BOTTOM the same way with the height.
C21_MarginRule35Percent ==
    MarginRuleDone => edge_margin[1] = MarginRule(Below35Percent)

\* C21 amended: for a pointer inside the geometry the margin rule selects
\* LEFT if the pointer is less than the margin from the left edge, otherwise
\* RIGHT if it is less than the margin from the right edge, otherwise
\* neither, the margin being 35% of the width truncated to whole pixels; it
\* decides TOP/BOTTOM the same way with the height, whatever the horizontal
\* result; when the rule selects an edge the result of the calculation is
\* what it selected; neither the rule nor the result holds both LEFT and
\* RIGHT or both TOP and BOTTOM; {0,0,100,100} and (10,10) give {LEFT, TOP}.
C21_MarginRule ==
    MarginRuleDone =>
        /\ edge_margin[1] = MarginRule(BelowTruncated35Percent)
        /\ edge_margin[1] # {} => edge_out[1] = edge_margin[1]
        /\ \A e \in {edge_margin[1], edge_out[1]} :
              /\ Cardinality(HoriEdges(e)) <= 1
              /\ Cardinality(VertEdges(e)) <= 1
        /\ (edge_geo = Geo(0, 0, 100, 100) /\ edge_p = Point(10, 10))
              => edge_out[1] = {WLR_EDGE_LEFT, WLR_EDGE_TOP}

\* The margin rule has selected TOP alone for a pointer at exactly the
\* horizontal margin: 35 pixels from the left edge of a width of 100.
C21_Witness ==
    /\ MarginRuleDone
    /\ edge_geo = Geo(0, 0, 100, 100)
    /\ edge_p = Point(35, 10)
    /\ edge_margin[1] = {WLR_EDGE_TOP}
    /\ edge_out[1] = {WLR_EDGE_TOP}

\* ----------------------------------------------------------- SpecTree
\* The container operations of swayfire.hpp on the tiled tree.  Their bodies
\* are in swayfire.cpp; they are modelled from the description of the
\* operations.  A ratio (a float in the program) is an exact fraction <<n, d>>
\* in lowest terms.  SplitChild::preferred_size stays unset: nothing in
\* grab.cpp or swayfire.hpp sets it.

RECURSIVE GCD(_, _)
GCD(a, b) == IF b = 0 THEN a ELSE GCD(b, a % b)

Ratio(n, d) == LET g == GCD(n, d) IN <<n \div g, d \div g>>
One == <<1, 1>>
\* Sum, difference and quotient, over the least common denominator so that
\* the intermediate products stay small.
RAdd(q, r) ==
    LET g == GCD(q[2], r[2])
    IN  Ratio(q[1] * (r[2] \div g) + r[1] * (q[2] \div g),
              (q[2] \div g) * r[2])
RSub(q, r) == RAdd(q, <<0 - r[1], r[2]>>)
RDiv(q, r) ==
    LET gn == GCD(q[1], r[1])
        gd == GCD(q[2], r[2])
    IN  Ratio((q[1] \div gn) * (r[2] \div gd),
              (q[2] \div gd) * (r[1] \div gn))
\* floor(q * n)
RFloorTimes(q, n) == (q[1] * n) \div q[2]

RECURSIVE RatioSum(_)
RatioSum(cs) ==
    IF cs = <<>> THEN <<0, 1>>
    ELSE RAdd(cs[1].ratio, RatioSum(Tail(cs)))

\* The tree as one value, so that operations compose.
\* destroyed collects the nodes an operation destroys on its way.
Tree == [children |-> children, split_type |-> split_type,
         parent |-> parent, pref |-> prefered_split_type, destroyed |-> {},
         ws |-> ws, floating |-> floating, floating_nodes |-> floating_nodes]

SetTree(T) ==
    \E V \in {T} :
        /\ children' = V.children
        /\ split_type' = V.split_type
        /\ parent' = V.parent
        /\ prefered_split_type' = V.pref
        /\ destroyed' = V.destroyed
        /\ ws' = V.ws
        /\ floating' = V.floating
        /\ floating_nodes' = V.floating_nodes

IsChild(T, p, n) == \E i \in DOMAIN T.children[p] : T.children[p][i].node = n

\* SplitNode::find_child
find_child(T, p, n) ==
    CHOOSE i \in DOMAIN T.children[p] : T.children[p][i].node = n

\* Node n stands in the tiled tree: its parents lead to the tiled root.
RECURSIVE Attached(_, _)
Attached(T, n) ==
    IF n = "root" THEN TRUE
    ELSE IF T.parent[n] \notin Splits THEN FALSE
    ELSE Attached(T, T.parent[n])

\* Node n and the nodes below it.
RECURSIVE SubtreeNodes(_, _)
SubtreeNodes(T, n) ==
    {n} \cup (IF n \in Splits
              THEN UNION {SubtreeNodes(T, T.children[n][i].node) :
                             i \in DOMAIN T.children[n]}
              ELSE {})

\* INode::set_ws and SplitNode::set_ws: n and all nodes below it are managed
\* by w.
set_ws(T, n, w) ==
    [m \in TreeNodes |-> IF m \in SubtreeNodes(T, n) THEN w ELSE T.ws[m]]

InsertSeq(seq, i, x) == SubSeq(seq, 1, i - 1) \o <<x>> \o SubSeq(seq, i, Len(seq))
RemoveSeq(seq, i) == SubSeq(seq, 1, i - 1) \o SubSeq(seq, i + 1, Len(seq))

\* Mutant: the new child takes its share, the siblings keep their ratios.
insert_child_at_keep(T, p, at, n) ==
    LET cs == T.children[p]
        k == Len(cs) + 1
    IN  [T EXCEPT !.children[p] =
                      InsertSeq(cs, at, [node |-> n, ratio |-> Ratio(1, k)]),
                  !.parent[n] = p,
                  !.ws = set_ws(T, n, T.ws[p])]

\* SplitNode::insert_child_at: every child of the updated sequence gets the
\* share 1/n; the node's parent is set.
insert_child_at(T, p, at, n) ==
    LET cs == InsertSeq(T.children[p], at, [node |-> n, ratio |-> One])
        k == Len(cs)
    IN  [T EXCEPT !.children[p] =
                      [i \in 1..k |->
                          [node |-> cs[i].node, ratio |-> Ratio(1, k)]],
                  !.parent[n] = p,
                  !.ws = set_ws(T, n, T.ws[p])]

\* SplitNode::insert_child_front
insert_child_front(T, p, n) == insert_child_at(T, p, 1, n)

\* SplitNode::insert_child_back (and insert_child)
insert_child_back(T, p, n) ==
    insert_child_at(T, p, Len(T.children[p]) + 1, n)

\* SplitNode::insert_child_front_of
insert_child_front_of(T, p, of, n) ==
    insert_child_at(T, p, find_child(T, p, of), n)

\* SplitNode::insert_child_back_of
insert_child_back_of(T, p, of, n) ==
    insert_child_at(T, p, find_child(T, p, of) + 1, n)

\* SplitNode::remove_child_at: the remaining ratios are scaled to sum to 1.
remove_child_at(T, p, i) ==
    LET cs == T.children[p]
        rest == RemoveSeq(cs, i)
        left == RSub(One, cs[i].ratio)
    IN  [T EXCEPT !.children[p] =
                      [j \in 1..Len(rest) |->
                          [node |-> rest[j].node,
                           ratio |-> RDiv(rest[j].ratio, left)]],
                  !.parent[cs[i].node] = NoNode]

\* Mutant: the node put in the slot is not told its parent.
swap_child_noparent(T, p, n, other) ==
    LET i == find_child(T, p, n)
        cs == T.children[p]
    IN  [T EXCEPT !.children[p] =
                      [k \in 1..Len(cs) |->
                          IF k = i
                          THEN [node |-> other, ratio |-> cs[k].ratio]
                          ELSE cs[k]],
                  !.parent[n] = NoNode,
                  !.ws = set_ws(T, other, T.ws[p])]

\* SplitNode::swap_child: other takes the slot and ratio of node.
swap_child(T, p, n, other) ==
    LET i == find_child(T, p, n)
        cs == T.children[p]
    IN  [T EXCEPT !.children[p] =
                      [k \in 1..Len(cs) |->
                          IF k = i
                          THEN [node |-> other, ratio |-> cs[k].ratio]
                          ELSE cs[k]],
                  !.parent[other] = p,
                  !.parent[n] = NoNode,
                  !.ws = set_ws(T, other, T.ws[p])]

\* SplitNode::try_downgrade: a split with exactly one child, itself the child
\* of a split, is replaced there by that child; a view node remembers the
\* split type.  The split is destroyed: its id is unused again, with the
\* fields of a node not yet constructed.
try_downgrade_nopref(T, sp) ==
    IF Len(T.children[sp]) = 1 /\ T.parent[sp] \in Splits
    THEN LET c == T.children[sp][1].node
             T1 == swap_child(T, T.parent[sp], sp, c)
         IN  [T1 EXCEPT !.children[sp] = <<>>,
                        !.split_type[sp] = "VSPLIT",
                        !.destroyed = @ \cup {sp},
                        !.ws = [@ EXCEPT ![sp] = NoNode]]
    ELSE T

try_downgrade_back(T, sp) ==
    IF Len(T.children[sp]) = 1 /\ T.parent[sp] \in Splits
    THEN LET c == T.children[sp][1].node
             q == T.parent[sp]
             T0 == remove_child_at(T, q, find_child(T, q, sp))
             T1 == insert_child_back(
                       [T0 EXCEPT !.parent = [@ EXCEPT ![c] = NoNode]], q, c)
         IN  [T1 EXCEPT !.children[sp] = <<>>,
                        !.split_type[sp] = "VSPLIT",
                        !.destroyed = @ \cup {sp},
                        !.ws = [@ EXCEPT ![sp] = NoNode],
                        !.pref = IF c \in Leaves
                                 THEN [@ EXCEPT ![c] = T.split_type[sp]]
                                 ELSE @]
    ELSE T

try_downgrade(T, sp) ==
    IF Len(T.children[sp]) = 1 /\ T.parent[sp] \in Splits
    THEN LET c == T.children[sp][1].node
             T1 == swap_child(T, T.parent[sp], sp, c)
         IN  [T1 EXCEPT !.children[sp] = <<>>,
                        !.split_type[sp] = "VSPLIT",
                        !.destroyed = @ \cup {sp},
                        !.ws = [@ EXCEPT ![sp] = NoNode],
                        !.pref = IF c \in Leaves
                                 THEN [@ EXCEPT ![c] = T.split_type[sp]]
                                 ELSE @]
    ELSE T

\* After a child left split p: a split left with at most one child downgrades.
AutoDowngrade(T, p) ==
    IF Len(T.children[p]) <= 1 THEN try_downgrade(T, p) ELSE T

\* SplitNode::remove_child
remove_child(T, p, n) ==
    AutoDowngrade(remove_child_at(T, p, find_child(T, p, n)), p)

\* ViewNode::try_upgrade into the freshly constructed split node sp.
try_upgrade(T, leaf, sp) ==
    LET p == T.parent[leaf]
        T1 == swap_child(T, p, leaf, sp)
        T2 == [T1 EXCEPT !.split_type[sp] = T.pref[leaf],
                         !.children[sp] = <<>>]
        T3 == insert_child_back(T2, sp, leaf)
    IN  [T3 EXCEPT !.pref[leaf] = "nullopt"]

\* SplitNode::toggle_split_direction
toggle_split_direction(T, p) ==
    [T EXCEPT !.split_type[p] = IF @ = "VSPLIT" THEN "HSPLIT" ELSE "VSPLIT"]

Directions == {"UP", "DOWN", "LEFT", "RIGHT"}

opposite_dir(dir) ==
    CASE dir = "LEFT" -> "RIGHT"
      [] dir = "RIGHT" -> "LEFT"
      [] dir = "DOWN" -> "UP"
      [] dir = "UP" -> "DOWN"

\* The children of an HSPLIT lie side by side, those of a VSPLIT one above
\* the other.
AlongAxis(type, dir) ==
    \/ type = "HSPLIT" /\ dir \in {"LEFT", "RIGHT"}
    \/ type = "VSPLIT" /\ dir \in {"UP", "DOWN"}
Forward(dir) == dir \in {"RIGHT", "DOWN"}

\* SplitNode::get_adjacent: the sibling next to n in direction dir; without
\* one, the node next to this split in its own parent, and so on upwards.
\* Index of the sibling of n towards dir in split p, 0 when p does not split
\* along dir or n is the last child on that side.
SiblingTowards_next(T, p, n, dir) ==
    LET i == find_child(T, p, n)
        j == i + 1
    IN  IF AlongAxis(T.split_type[p], dir) /\ j \in DOMAIN T.children[p]
        THEN j ELSE 0

SiblingTowards(T, p, n, dir) ==
    LET i == find_child(T, p, n)
        j == IF Forward(dir) THEN i + 1 ELSE i - 1
    IN  IF AlongAxis(T.split_type[p], dir) /\ j \in DOMAIN T.children[p]
        THEN j ELSE 0

RECURSIVE get_adjacent(_, _, _, _)
get_adjacent(T, p, n, dir) ==
    IF SiblingTowards(T, p, n, dir) # 0
    THEN T.children[p][SiblingTowards(T, p, n, dir)].node
    ELSE IF T.parent[p] \in Splits
         THEN get_adjacent(T, T.parent[p], p, dir)
         ELSE NoNode

\* SplitNode::move_child returns whether it moved n: n has to be a direct
\* child of p with an adjacent node towards dir.
move_child_ret(T, p, n, dir) ==
    IsChild(T, p, n) /\ get_adjacent(T, p, n, dir) # NoNode

\* Mutant: the child is taken out before the adjacent node is looked for.
move_child_early(T, p, n, dir) ==
    IF ~IsChild(T, p, n) THEN T
    ELSE LET adj == get_adjacent(T, p, n, dir)
             T1 == remove_child_at(T, p, find_child(T, p, n))
             q == T.parent[adj]
         IN  IF adj = NoNode THEN AutoDowngrade(T1, p)
             ELSE AutoDowngrade(
                      IF adj \in Splits /\ AlongAxis(T.split_type[adj], dir)
                      THEN IF Forward(dir) THEN insert_child_front(T1, adj, n)
                           ELSE insert_child_back(T1, adj, n)
                      ELSE IF (q = p) = Forward(dir)
                           THEN insert_child_back_of(T1, q, adj, n)
                           ELSE insert_child_front_of(T1, q, adj, n), p)

\* SplitNode::move_child: a direct child n of p with an adjacent node goes
\* into the adjacent split when it splits along dir, next to the adjacent
\* node otherwise; without one, or when n is no child of p, nothing moves.
move_child(T, p, n, dir) ==
    IF ~move_child_ret(T, p, n, dir) THEN T
    ELSE LET adj == get_adjacent(T, p, n, dir)
             T1 == remove_child_at(T, p, find_child(T, p, n))
             q == T.parent[adj]
             T2 == IF adj \in Splits /\ AlongAxis(T.split_type[adj], dir)
                   THEN IF Forward(dir) THEN insert_child_front(T1, adj, n)
                        ELSE insert_child_back(T1, adj, n)
                   ELSE IF (q = p) = Forward(dir)
                        THEN insert_child_back_of(T1, q, adj, n)
                        ELSE insert_child_front_of(T1, q, adj, n)
         IN  AutoDowngrade(T2, p)

RECURSIVE SumFloor(_, _, _)
SumFloor(cs, k, ext) ==
    IF k = 0 THEN 0
    ELSE RFloorTimes(cs[k].ratio, ext) + SumFloor(cs, k - 1, ext)

\* SplitNode::set_geometry: the extent child i gets of ext; the last child
\* takes what the rounding leaves.
ChildExtent_floor(cs, i, ext) ==
    RFloorTimes(cs[i].ratio, ext)

ChildExtent(cs, i, ext) ==
    IF i = Len(cs) THEN ext - SumFloor(cs, i - 1, ext)
    ELSE RFloorTimes(cs[i].ratio, ext)

\* Width and height of an attached node as set_geometry lays the tree out.
RECURSIVE Dims(_, _)
Dims(T, n) ==
    IF T.parent[n] = WorkspaceParent
    THEN [width |-> WorkareaSize, height |-> WorkareaSize]
    ELSE LET p == T.parent[n]
             pd == Dims(T, p)
             i == find_child(T, p, n)
         IN  IF T.split_type[p] = "HSPLIT"
             THEN [width |-> ChildExtent(T.children[p], i, pd.width),
                   height |-> pd.height]
             ELSE [width |-> pd.width,
                   height |-> ChildExtent(T.children[p], i, pd.height)]

Min(a, b) == IF a < b THEN a ELSE b

\* The ratio of a child whose extent of ext changes by delta.
Grow(r, delta, ext) == Ratio(r[1] * ext + delta * r[2], r[2] * ext)

\* INode::try_resize on a tiled node n: along the axis of its parent split,
\* n grows or shrinks against the sibling on the side of the moving edge;
\* no child goes below MIN_VIEW_SIZE; the other ratios stay.
try_resize(T, n, ndims, edges) ==
    LET p == T.parent[n]
        cs == T.children[p]
        i == find_child(T, p, n)
        horiz == T.split_type[p] = "HSPLIT"
        front == IF horiz THEN WLR_EDGE_LEFT \in edges
                 ELSE WLR_EDGE_TOP \in edges
        back == IF horiz THEN WLR_EDGE_RIGHT \in edges
                ELSE WLR_EDGE_BOTTOM \in edges
        nb == IF front /\ i > 1 THEN i - 1
              ELSE IF back /\ i < Len(cs) THEN i + 1
              ELSE 0
        pd == Dims(T, p)
        ext == IF horiz THEN pd.width ELSE pd.height
        want == IF horiz THEN ndims.width ELSE ndims.height
        cur == ChildExtent(cs, i, ext)
        lo == MIN_VIEW_SIZE - cur
        hi == ChildExtent(cs, nb, ext) - MIN_VIEW_SIZE
        delta == Max(lo, Min(hi, want - cur))
    IN  IF nb = 0 \/ lo > hi THEN T
        ELSE [T EXCEPT !.children[p] =
                 [k \in 1..Len(cs) |->
                     [node |-> cs[k].node,
                      ratio |-> IF k = i THEN Grow(cs[k].ratio, delta, ext)
                                ELSE IF k = nb
                                THEN Grow(cs[k].ratio, 0 - delta, ext)
                                ELSE cs[k].ratio]]]

\* ---- actions
TreeFrame == UNCHANGED <<grabVars, edgeVars, idVars, resizes>>

\* A node the caller owns: a view node out of the tree, or a split node that
\* was removed with its children.
Owned(T, n) ==
    /\ T.parent[n] = NoNode
    /\ n \in Splits => T.children[n] # <<>>

\* The caller of remove_child or swap_child owns the node it gets back; a
\* split without children it lets go, and the split is destroyed.
Drop(T, n) ==
    IF n \in Splits /\ T.children[n] = <<>>
    THEN [T EXCEPT !.split_type[n] = "VSPLIT", !.destroyed = @ \cup {n},
                   !.ws = [@ EXCEPT ![n] = NoNode]]
    ELSE T

\* A split node id no constructed node uses.
Unused(T, sp) == T.parent[sp] = NoNode /\ T.children[sp] = <<>>

T_InsertChildFront(p, n) ==
    /\ Attached(Tree, p) /\ Owned(Tree, n)
    /\ SetTree(insert_child_front(Tree, p, n))
    /\ tree_ret' = "none"
    /\ TreeFrame

T_InsertChildBack(p, n) ==
    /\ Attached(Tree, p) /\ Owned(Tree, n)
    /\ SetTree(insert_child_back(Tree, p, n))
    /\ tree_ret' = "none"
    /\ TreeFrame

T_InsertChildFrontOf(p, of, n) ==
    /\ Attached(Tree, p) /\ Owned(Tree, n) /\ IsChild(Tree, p, of)
    /\ SetTree(insert_child_front_of(Tree, p, of, n))
    /\ tree_ret' = "none"
    /\ TreeFrame

T_InsertChildBackOf(p, of, n) ==
    /\ Attached(Tree, p) /\ Owned(Tree, n) /\ IsChild(Tree, p, of)
    /\ SetTree(insert_child_back_of(Tree, p, of, n))
    /\ tree_ret' = "none"
    /\ TreeFrame

T_RemoveChild(p, n) ==
    /\ Attached(Tree, p) /\ IsChild(Tree, p, n)
    /\ SetTree(Drop(remove_child(Tree, p, n), n))
    /\ tree_ret' = n
    /\ TreeFrame

T_SwapChild(p, n, other) ==
    /\ Attached(Tree, p) /\ IsChild(Tree, p, n) /\ Owned(Tree, other)
    /\ SetTree(Drop(swap_child(Tree, p, n, other), n))
    /\ tree_ret' = n
    /\ TreeFrame

T_MoveChild(p, n, dir) ==
    /\ Attached(Tree, p)
    /\ SetTree(move_child(Tree, p, n, dir))
    /\ tree_ret' = IF move_child_ret(Tree, p, n, dir) THEN "true" ELSE "false"
    /\ TreeFrame

ResizeDims == {[width |-> MIN_VIEW_SIZE * k, height |-> MIN_VIEW_SIZE * k] :
                  k \in 1..MaxResizeSteps}
ResizeEdges == {{WLR_EDGE_LEFT, WLR_EDGE_TOP},
                {WLR_EDGE_RIGHT, WLR_EDGE_BOTTOM}, {}}

T_TryResize(n, ndims, edges) ==
    /\ resizes < MaxTreeResizes
    /\ Attached(Tree, n) /\ parent[n] \in Splits
    /\ SetTree(try_resize(Tree, n, ndims, edges))
    /\ resizes' = resizes + 1
    /\ tree_ret' = "none"
    /\ UNCHANGED <<grabVars, edgeVars, idVars>>

\* The set_want_vsplit / set_want_hsplit key bindings, on a view node.
T_SetWantSplit(leaf, type) ==
    /\ Attached(Tree, leaf)
    /\ SetTree([Tree EXCEPT !.pref[leaf] = type])
    /\ tree_ret' = "none"
    /\ TreeFrame

T_TryUpgrade(leaf, sp) ==
    /\ Attached(Tree, leaf) /\ Unused(Tree, sp)
    /\ IF prefered_split_type[leaf] # "nullopt"
       THEN /\ SetTree(try_upgrade(Tree, leaf, sp))
            /\ tree_ret' = sp
       ELSE /\ SetTree(Tree)
            /\ tree_ret' = "none"
    /\ TreeFrame

\* SplitNode::try_downgrade called on split sp: returns the surviving child,
\* or none when sp has not exactly one child or stands under the workspace.
T_TryDowngrade(sp) ==
    /\ Attached(Tree, sp)
    /\ SetTree(try_downgrade(Tree, sp))
    /\ tree_ret' = IF Len(children[sp]) = 1 /\ parent[sp] \in Splits
                   THEN children[sp][1].node ELSE "none"
    /\ TreeFrame

T_ToggleSplitDirection(p) ==
    /\ Attached(Tree, p)
    /\ SetTree(toggle_split_direction(Tree, p))
    /\ tree_ret' = "none"
    /\ TreeFrame

InitTree ==
    /\ GrabIdle
    /\ EdgeIdle
    /\ TreeIdle
    /\ IdIdle

\* SpecTree builds its trees from two of the view nodes, so that the ratios
\* resizes produce stay within reach.
ResizedNodes == {"a", "b"} \cup Splits

NextTree ==
    \/ \E p \in Splits, n \in ResizedNodes : T_InsertChildFront(p, n)
    \/ \E p \in Splits, n \in ResizedNodes : T_InsertChildBack(p, n)
    \/ \E p \in Splits, of \in TreeNodes, n \in ResizedNodes :
          T_InsertChildFrontOf(p, of, n)
    \/ \E p \in Splits, of \in TreeNodes, n \in ResizedNodes :
          T_InsertChildBackOf(p, of, n)
    \/ \E p \in Splits, n \in TreeNodes : T_RemoveChild(p, n)
    \/ \E p \in Splits, n \in TreeNodes, o \in ResizedNodes :
          T_SwapChild(p, n, o)
    \/ \E p \in Splits, n \in TreeNodes, d \in Directions : T_MoveChild(p, n, d)
    \/ \E n \in TreeNodes, nd \in ResizeDims, e \in ResizeEdges :
          T_TryResize(n, nd, e)
    \/ \E l \in Leaves, t \in {"VSPLIT", "HSPLIT"} : T_SetWantSplit(l, t)
    \/ \E l \in Leaves, sp \in Splits : T_TryUpgrade(l, sp)
    \/ \E p \in Splits : T_ToggleSplitDirection(p)

SpecTree == InitTree /\ [][NextTree]_vars

RECURSIVE NodeGeo(_, _)
NodeGeo(T, n) ==
    IF T.parent[n] = WorkspaceParent
    THEN Geo(0, 0, WorkareaSize, WorkareaSize)
    ELSE LET p == T.parent[n]
             pg == NodeGeo(T, p)
             cs == T.children[p]
             i == find_child(T, p, n)
         IN  IF T.split_type[p] = "HSPLIT"
             THEN Geo(pg.x + SumFloor(cs, i - 1, pg.width), pg.y,
                      ChildExtent(cs, i, pg.width), pg.height)
             ELSE Geo(pg.x, pg.y + SumFloor(cs, i - 1, pg.height),
                      pg.width, ChildExtent(cs, i, pg.height))

\* The operations on the shape of the tree, on all view nodes, without
\* resizes.
NextShape ==
    \/ \E p \in Splits, n \in TreeNodes : T_InsertChildFront(p, n)
    \/ \E p \in Splits, n \in TreeNodes : T_InsertChildBack(p, n)
    \/ \E p \in Splits, of \in TreeNodes, n \in TreeNodes :
          T_InsertChildFrontOf(p, of, n)
    \/ \E p \in Splits, of \in TreeNodes, n \in TreeNodes :
          T_InsertChildBackOf(p, of, n)
    \/ \E p \in Splits, n \in TreeNodes : T_RemoveChild(p, n)
    \/ \E p \in Splits, n \in TreeNodes, o \in TreeNodes : T_SwapChild(p, n, o)
    \/ \E p \in Splits, n \in TreeNodes, d \in Directions : T_MoveChild(p, n, d)
    \/ \E l \in Leaves, t \in {"VSPLIT", "HSPLIT"} : T_SetWantSplit(l, t)
    \/ \E l \in Leaves, sp \in Splits : T_TryUpgrade(l, sp)
    \/ \E p \in Splits : T_ToggleSplitDirection(p)
    \/ \E sp \in Splits : T_TryDowngrade(sp)

SpecShape == InitTree /\ [][NextShape]_vars

\* The child of split sp that is not n.
OtherChild(sp, n) ==
    IF children[sp][1].node = n THEN children[sp][2].node
    ELSE children[sp][1].node

C13_UpgradeDowngradeRoundTrip ==
    [][\A l \in Leaves, sp \in Splits :
          (prefered_split_type[l] # "nullopt" /\ T_TryUpgrade(l, sp))
          => LET D == try_downgrade(Tree', sp)
             IN  /\ prefered_split_type'[l] = "nullopt"
                 /\ split_type'[sp] = prefered_split_type[l]
                 /\ D.children = children
                 /\ D.parent = parent
                 /\ D.pref = prefered_split_type
                 /\ D.split_type = split_type]_vars

\* try_downgrade has just returned a leaf that stands in the tree with a
\* split preference, as the first of several children, and destroyed s1.
C13_Witness ==
    /\ destroyed = {"s1"}
    /\ tree_ret \in Leaves
    /\ parent[tree_ret] = "root"
    /\ prefered_split_type[tree_ret] # "nullopt"
    /\ Len(children["root"]) >= 2
    /\ children["root"][1].node = tree_ret

\* Split a is p or a split above p.
RECURSIVE IsAncestorOrSelf(_, _, _)
IsAncestorOrSelf(T, a, p) ==
    \/ a = p
    \/ T.parent[p] \in Splits /\ IsAncestorOrSelf(T, a, T.parent[p])

\* C14: in a split of two children, when get_adjacent of one child towards a
\* direction is the other child, get_adjacent of the other child towards the
\* opposite direction is the first; and the node get_adjacent returns is a
\* child of the split asked or of a split above it, never a node further
\* down.
C14_AdjacentSymmetric ==
    \A p \in Splits :
        Attached(Tree, p) =>
            /\ Len(children[p]) = 2 =>
                   \A i \in 1..2, dir \in Directions :
                       LET A == children[p][i].node
                           B == children[p][3 - i].node
                       IN  get_adjacent(Tree, p, A, dir) = B
                           => get_adjacent(Tree, p, B, opposite_dir(dir)) = A
            /\ \A i \in DOMAIN children[p], dir \in Directions :
                   LET adj == get_adjacent(Tree, p, children[p][i].node, dir)
                   IN  adj # NoNode
                       => /\ parent[adj] \in Splits
                          /\ IsAncestorOrSelf(Tree, parent[adj], p)

\* Split s1 holds two leaves side by side under a root that stacks it on a
\* third leaf: the leaves of s1 are adjacent to each other left and right,
\* the search downwards from s1 ends at the root level, and from the third
\* leaf upwards it returns split s1 itself.
C14_Witness ==
    /\ parent["s1"] = "root"
    /\ split_type["s1"] = "HSPLIT"
    /\ split_type["root"] = "VSPLIT"
    /\ Len(children["s1"]) = 2
    /\ Len(children["root"]) = 2
    /\ children["root"][1].node = "s1"
    /\ LET A == children["s1"][1].node
           B == children["s1"][2].node
           C == children["root"][2].node
       IN  /\ get_adjacent(Tree, "s1", A, "RIGHT") = B
           /\ get_adjacent(Tree, "s1", B, "LEFT") = A
           /\ get_adjacent(Tree, "s1", A, "DOWN") = C
           /\ get_adjacent(Tree, "root", C, "UP") = "s1"

\* Child n of p is the outermost child towards dir, in p and in every split
\* above p that splits along dir.
RECURSIVE AtEdge(_, _, _, _)
AtEdge(T, p, n, dir) ==
    /\ AlongAxis(T.split_type[p], dir)
           => find_child(T, p, n) = (IF Forward(dir) THEN Len(T.children[p])
                                     ELSE 1)
    /\ T.parent[p] \in Splits => AtEdge(T, T.parent[p], p, dir)

C20_TokenBalance ==
    /\ TokenHeld <=> active_grab # NullGrab
    /\ deactivations <= activations
    /\ activations - deactivations = (IF active_grab # NullGrab THEN 1 ELSE 0)
    /\ (\E i \in DOMAIN arbiter_calls : arbiter_calls[i] = "grab:false")
          => /\ active_grab = NullGrab
             /\ CountOf(arbiter_calls, "deactivate_plugin") = 1
             /\ arbiter_calls[1] = "activate_plugin:true"
             /\ arbiter_calls[Len(arbiter_calls)] = "deactivate_plugin"

\* Every activation so far is matched: the last handler activated the
\* plugin, saw grab() fail and deactivated it, with the bindings still on.
C20_Witness ==
    /\ bindings
    /\ activations = deactivations
    /\ activations > 0
    /\ CountOf(arbiter_calls, "grab:false") = 1
    /\ CountOf(arbiter_calls, "deactivate_plugin") = 1

\* The rectangle of child i of split p.
ChildGeo(p, i) == NodeGeo(Tree, children[p][i].node)

UintMax == <<UintHalf - 1, UintHalf - 1>>

\* id_counter++ on a uint: past UintMax it is 0 again.
UintInc(c) ==
    IF c[2] < UintHalf - 1 THEN <<c[1], c[2] + 1>>
    ELSE <<(c[1] + 1) % UintHalf, 0>>

UintLess(a, b) == a[1] < b[1] \/ (a[1] = b[1] /\ a[2] < b[2])

\* INode::INode(): node_id(id_counter) { id_counter++; }
INode_construct(n) ==
    /\ node_id[n] = <<>>
    /\ Len(id_log) < MaxConstructed
    /\ node_id' = [node_id EXCEPT ![n] = <<id_counter>>]
    /\ id_log' = Append(id_log, id_counter)
    /\ id_counter' = UintInc(id_counter)
    /\ UNCHANGED <<grabVars, edgeVars, treeVars>>

\* ViewNode::ViewNode and SplitNode::SplitNode run INode::INode first.
ViewNode_construct(v) == INode_construct(v)
SplitNode_construct(sp) == INode_construct(sp)

\* A node is destroyed; its id goes with it, id_counter stays.
INode_destroy(n) ==
    /\ node_id[n] # <<>>
    /\ node_id' = [node_id EXCEPT ![n] = <<>>]
    /\ UNCHANGED <<id_counter, id_log>>
    /\ UNCHANGED <<grabVars, edgeVars, treeVars>>

\* The process has constructed no node yet, or has constructed (and
\* destroyed) UintMax - 1 nodes: id_counter is two short of its wrap.
IdCounterStarts == {<<0, 0>>, <<UintHalf - 1, UintHalf - 2>>}

InitIds ==
    /\ GrabIdle
    /\ EdgeIdle
    /\ TreeIdle
    /\ id_counter \in IdCounterStarts
    /\ node_id = [n \in TreeNodes |-> <<>>]
    /\ id_log = <<>>

NextIds ==
    \/ \E v \in Leaves : ViewNode_construct(v)
    \/ \E sp \in Splits : SplitNode_construct(sp)
    \/ \E n \in TreeNodes : INode_destroy(n)

SpecIds == InitIds /\ [][NextIds]_vars

\* C15 as stated: every node gets an id greater than the id of every node
\* constructed before it, so no two nodes that ever existed share an id.
C15_IdsIncrease ==
    \A i \in DOMAIN id_log, j \in DOMAIN id_log :
        i < j => UintLess(id_log[i], id_log[j])

\* ---------------------------------------------- the workspace, floating
\* Workspace::insert_floating_node
insert_floating_node(T, n) ==
    [T EXCEPT !.floating_nodes = Append(@, n),
              !.parent[n] = WorkspaceParent,
              !.ws = set_ws(T, n, WorkspaceParent)]

\* Workspace::find_floating
find_floating(T, n) ==
    CHOOSE i \in DOMAIN T.floating_nodes : T.floating_nodes[i] = n

IsFloatingChild(T, n) ==
    \E i \in DOMAIN T.floating_nodes : T.floating_nodes[i] = n

\* Workspace::remove_floating_node
remove_floating_node(T, n) ==
    [T EXCEPT !.floating_nodes = RemoveSeq(@, find_floating(T, n)),
              !.parent[n] = NoNode]

\* Workspace::insert_tiled_node: into the tiled tree at the active position,
\* which is some split of the tree, at its front or its back.
insert_tiled_node(T, n, p, front) ==
    IF front THEN insert_child_front(T, p, n) ELSE insert_child_back(T, p, n)

\* Workspace::remove_node: from the floating set or from the parent split.
remove_node(T, n) ==
    IF T.floating[n] THEN remove_floating_node(T, n)
    ELSE remove_child(T, T.parent[n], n)

\* ViewNode::set_floating: a tiled node leaves its split and becomes a
\* floating node of the workspace; a floating node leaves the floating set
\* and goes into the tiled tree at the active position (p, front).
set_floating(T, n, fl, p, front) ==
    IF fl = T.floating[n] THEN T
    ELSE LET T1 == remove_node(T, n)
         IN  IF fl
             THEN insert_floating_node([T1 EXCEPT !.floating[n] = TRUE], n)
             ELSE insert_tiled_node([T1 EXCEPT !.floating[n] = FALSE],
                                    n, p, front)

\* Workspace::toggle_tile_node
toggle_tile_node(T, n, p, front) ==
    set_floating(T, n, ~T.floating[n], p, front)

\* Node n is managed by the workspace: tiled or floating.
Managed(T, n) == Attached(T, n) \/ IsFloatingChild(T, n)

W_ToggleTileNode(n, p, front) ==
    /\ Managed(Tree, n) /\ Attached(Tree, p)
    /\ SetTree(toggle_tile_node(Tree, n, p, front))
    /\ tree_ret' = "none"
    /\ TreeFrame

\* Workspace::remove_node on a floating node (T_RemoveChild removes the
\* tiled ones).
W_RemoveFloatingNode(n) ==
    /\ IsFloatingChild(Tree, n)
    /\ SetTree([remove_node(Tree, n) EXCEPT !.floating[n] = FALSE])
    /\ tree_ret' = n
    /\ TreeFrame

NextWs ==
    \/ \E p \in Splits, n \in TreeNodes : T_InsertChildFront(p, n)
    \/ \E p \in Splits, n \in TreeNodes : T_InsertChildBack(p, n)
    \/ \E p \in Splits, of \in TreeNodes, n \in TreeNodes :
          T_InsertChildFrontOf(p, of, n)
    \/ \E p \in Splits, of \in TreeNodes, n \in TreeNodes :
          T_InsertChildBackOf(p, of, n)
    \/ \E p \in Splits, n \in TreeNodes : T_RemoveChild(p, n)
    \/ \E p \in Splits, n \in TreeNodes, o \in TreeNodes : T_SwapChild(p, n, o)
    \/ \E p \in Splits, n \in TreeNodes, d \in Directions : T_MoveChild(p, n, d)
    \/ \E l \in Leaves, t \in {"VSPLIT", "HSPLIT"} : T_SetWantSplit(l, t)
    \/ \E l \in Leaves, sp \in Splits : T_TryUpgrade(l, sp)
    \/ \E sp \in Splits : T_TryDowngrade(sp)
    \/ \E n \in Leaves, p \in Splits, front \in BOOLEAN :
          W_ToggleTileNode(n, p, front)
    \/ \E n \in Leaves : W_RemoveFloatingNode(n)

SpecWs == InitTree /\ [][NextWs]_vars

\* The nodes the workspace owns, directly or through splits.
Reach == SubtreeNodes(Tree, "root")
           \cup {floating_nodes[i] : i \in DOMAIN floating_nodes}

\* The number of slots, in children lists and in the floating set, that
\* hold node n.
Slots(n) ==
    Cardinality({<<p, i>> \in Splits \X (1..Cardinality(TreeNodes)) :
                    i \in DOMAIN children[p] /\ children[p][i].node = n})
      + Cardinality({i \in DOMAIN floating_nodes : floating_nodes[i] = n})

====
